---- MODULE Spec2Model ----
(***************************************************************************)
(* State-machine model of backend/main.py: the FastAPI application that    *)
(* serves DESI coadd spectra.  The lifespan context manager installs the   *)
(* zall catalog in the module-level dict `payload`; the two handlers       *)
(* get_coadd_spectrum_json and get_coadd_spectrum_csv look a TARGETID up   *)
(* in it, derive the coadd file path, find the row of the target in the    *)
(* file's FIBERMAP and read the spectra, translating every exception into  *)
(* an HTTPException.                                                       *)
(*                                                                         *)
(* Optional values are sequences of length 0 or 1 (None == <<>>), and      *)
(* numpy's 0-based row index is kept 0-based: row i of an array is element *)
(* i + 1 of the sequence that models it.                                   *)
(***************************************************************************)
EXTENDS Integers, Sequences, FiniteSets, TLC

\* ---------------------------------------------------------------- bounds
\* Number of request slots: how many requests the application is handling
\* (or has answered and still remembers) at once.
MaxRequests == 2
\* Number of rows of a coadd file's FIBERMAP table.
MaxRows == 2

\* ------------------------------------------------------ program constants
HTTP_OK == 200
HTTP_NOT_FOUND == 404
HTTP_INTERNAL_ERROR == 500
\* pix = int(pixnum / 100)
PixDivisor == 100

None == <<>>
Some(x) == <<x>>

\* ------------------------------------------------------------ input sets
\* TARGETIDs a client may ask for; the catalogs below hold 1 and 2, never 3.
TargetIds == {1, 2, 3}
\* Values a client gives the `filter` query parameter, and its default.
Filters == {"R", "X"}
DefaultFilter == "R"

Arms == <<"B", "R", "Z">>
ArmKeys == <<"b", "r", "z">>
Kinds == <<"WAVELENGTH", "FLUX", "IVAR", "MASK">>
KindKeys == <<"wavelength", "flux", "ivar", "mask">>

ExtName(arm, kind) == arm \o "_" \o kind
ImageExts == {ExtName(Arms[a], Kinds[k]) : a \in 1..3, k \in 1..4}
AllExts == {"FIBERMAP", "SCORES"} \cup ImageExts

\* ------------------------------------------------------------- catalogs
CatalogRow(tid, survey, program, healpix) ==
    [TARGETID |-> tid, SURVEY |-> survey, PROGRAM |-> program, HEALPIX |-> healpix]

\* The zall table as it is after add_index('TARGETID'): TARGETID -> row.  The
\* empty table, and one whose two targets lie in two different coadd files.
Catalogs ==
    { <<>>,
      (1 :> CatalogRow(1, "main", "dark", 9103)) @@ (2 :> CatalogRow(2, "sv1", "bright", 12345)) }

\* ------------------------------------------------- the path of a coadd file
\* math.ceil(pixnum / 100) in the place of int(pixnum / 100).
Pix_Ceil(pixnum) == -((-pixnum) \div PixDivisor)

\* int(pixnum / 100): true division, then truncation toward zero.
Pix(pixnum) ==
    IF pixnum >= 0 THEN pixnum \div PixDivisor ELSE -((-pixnum) \div PixDivisor)

\* f"/data/desi/healpix/{survey}/{program}/{pix}/{pixnum}/coadd-{survey}-{program}-{pixnum}.fits"
\* as the sequence of its directory components and the parts of the file name.
FileCoadd(r) ==
    << "/data/desi/healpix", r.SURVEY, r.PROGRAM, Pix(r.HEALPIX), r.HEALPIX,
       <<"coadd", r.SURVEY, r.PROGRAM, r.HEALPIX, "fits">> >>

\* ------------------------------------------------------------ coadd files
\* A FITS file as the handlers see it: whether it opens as FITS at all, the
\* names of its extensions, whether FIBERMAP has a TARGETID column, that
\* column, and the number of rows of SCORES and of every 2-D image array.
CoaddFile(valid, exts, has_targetid, targetid, nrows) ==
    [valid |-> valid, exts |-> exts, has_targetid |-> has_targetid,
     targetid |-> targetid, nrows |-> nrows]

GoodFile(col) == CoaddFile(TRUE, AllExts, TRUE, col, Len(col))

\* A full TARGETID column that holds both targets: target 2 in row 0, target 1
\* in every later row (so more than once when there are more than two rows).
CanonColumn == [i \in 1..MaxRows |-> IF i = 1 THEN 2 ELSE 1]

\* The TARGETID columns of the files that are otherwise in order: the column
\* above, a full column of target 1 alone, and the column of a table of no rows.
FibermapColumns == {CanonColumn, [i \in 1..MaxRows |-> 1], <<>>}

\* Files that are damaged in one way each.
DamagedFiles ==
    { CoaddFile(FALSE, {}, FALSE, <<>>, 0),
      CoaddFile(TRUE, AllExts \ {"FIBERMAP"}, FALSE, <<>>, MaxRows),
      CoaddFile(TRUE, AllExts, FALSE, <<>>, MaxRows),
      CoaddFile(TRUE, AllExts \ {"SCORES"}, TRUE, CanonColumn, MaxRows),
      CoaddFile(TRUE, AllExts \ {"R_IVAR"}, TRUE, CanonColumn, MaxRows),
      CoaddFile(TRUE, AllExts, TRUE, CanonColumn, MaxRows - 1) }

CoaddFiles == {GoodFile(col) : col \in FibermapColumns} \cup DamagedFiles

PathsOf(catalog) == {FileCoadd(catalog[t]) : t \in DOMAIN catalog}

\* The trees of coadd files a catalog may meet: each path of the catalog is
\* missing or holds a file, and at most one of them departs from the good file.
FileSystems(catalog) ==
    { fsys \in UNION { [P -> CoaddFiles] : P \in SUBSET PathsOf(catalog) } :
        Cardinality({p \in PathsOf(catalog) :
                        p \notin DOMAIN fsys \/ fsys[p] # GoodFile(CanonColumn)}) <= 1 }

\* The data of an extension.  A wavelength grid is one 1-D array shared by all
\* rows; every other image array, and SCORES, has one entry per row.
IsGrid(ext) == \E a \in 1..3 : ext = ExtName(Arms[a], "WAVELENGTH")
GridData(ext) == <<ext, "grid">>
RowData(ext, i) == <<ext, "row", i>>
ImageData(f, ext) == [i \in 1..f.nrows |-> RowData(ext, i - 1)]
ScoresData(f) ==
    [i \in 1..f.nrows |-> [TSNR2_B |-> RowData("TSNR2_B", i - 1),
                           TSNR2_R |-> RowData("TSNR2_R", i - 1)]]

\* ------------------------------------------------------------ exceptions
NoError == [type |-> "", msg |-> ""]
Error(type, msg) == [type |-> type, msg |-> msg]
Ok(val) == [err |-> NoError, val |-> Some(val)]
Raised(type, msg) == [err |-> Error(type, msg), val |-> None]
Failed(res) == res.err # NoError

\* zall.loc[targetid]
Loc(zall, targetid) ==
    IF targetid \in DOMAIN zall
    THEN Ok(zall[targetid])
    ELSE Raised("KeyError", "No matches found for key")

\* Opening file_coadd, in fits.getdata and in fits.open.
OpenError(fsys, path) ==
    IF path \notin DOMAIN fsys
    THEN Error("FileNotFoundError", "No such file or directory")
    ELSE IF ~fsys[path].valid
    THEN Error("OSError", "No SIMPLE card found, this file does not appear to be a valid FITS file")
    ELSE NoError

\* hdul[ext]
ExtError(f, ext) ==
    IF ext \in f.exts THEN NoError
    ELSE Error("KeyError", "Extension '" \o ext \o "' not found.")

\* np.argwhere(column == targetid)[0][0]: the first matching row, 0-based.
Matches(column, targetid) == {i \in 1..Len(column) : column[i] = targetid}
MinOf(S) == CHOOSE m \in S : \A n \in S : m <= n
\* np.argmax(column == targetid): row 0 when no row matches.
Argwhere00_Argmax(column, targetid) ==
    IF Matches(column, targetid) = {} THEN Ok(0)
    ELSE Ok(MinOf(Matches(column, targetid)) - 1)

\* np.argwhere(column == targetid)[-1][0]: the last matching row.
Argwhere00_Last(column, targetid) ==
    IF Matches(column, targetid) = {}
    THEN Raised("IndexError", "index -1 is out of bounds for axis 0 with size 0")
    ELSE Ok((CHOOSE m \in Matches(column, targetid) :
                \A n \in Matches(column, targetid) : n <= m) - 1)

Argwhere00(column, targetid) ==
    IF Matches(column, targetid) = {}
    THEN Raised("IndexError", "index 0 is out of bounds for axis 0 with size 0")
    ELSE Ok(MinOf(Matches(column, targetid)) - 1)

\* fibermap = fits.getdata(file_coadd, 'FIBERMAP');
\* ispec = np.argwhere(fibermap['TARGETID'] == targetid)[0][0], on an open file.
Ispec(f, targetid) ==
    IF ExtError(f, "FIBERMAP") # NoError
    THEN [err |-> ExtError(f, "FIBERMAP"), val |-> None]
    ELSE IF ~f.has_targetid
    THEN Raised("KeyError", "Key 'TARGETID' does not exist.")
    ELSE Argwhere00(f.targetid, targetid)

\* array[ispec] of a per-row array, and hdu.section[ispec].
Section(data, ispec) ==
    IF ispec + 1 \in DOMAIN data
    THEN Ok(data[ispec + 1])
    ELSE Raised("IndexError", "index out of bounds")

\* info = row2dict(r): every key of the row with its value made plain (the
\* rows of the model hold plain integers and strings only).
Row2Dict(r) == [key \in DOMAIN r |-> r[key]]

\* scores = fits.getdata(file_coadd, 'SCORES'); scores = rec2dict(scores, ispec)
Scores(f, ispec) ==
    IF ExtError(f, "SCORES") # NoError
    THEN [err |-> ExtError(f, "SCORES"), val |-> None]
    ELSE LET row == Section(ScoresData(f), ispec)
         IN  IF Failed(row) THEN row
             ELSE Ok([key \in DOMAIN row.val[1] |-> row.val[1][key]])

\* One array of the open file: hdul[ext].data for a wavelength grid,
\* hdul[ext].section[ispec] for a per-row array.
ReadArray(f, ext, ispec) ==
    IF ExtError(f, ext) # NoError
    THEN [err |-> ExtError(f, ext), val |-> None]
    ELSE IF IsGrid(ext) THEN Ok(GridData(ext))
    ELSE Section(ImageData(f, ext), ispec)

\* The twelve assignments data['b_wavelength'] ... data['z_mask'], in order.
JsonArrays ==
    [n \in 1..12 |->
        LET a == ((n - 1) \div 4) + 1
            k == ((n - 1) % 4) + 1
        IN  [key |-> ArmKeys[a] \o "_" \o KindKeys[k], ext |-> ExtName(Arms[a], Kinds[k])]]

\* The four reads of the tabular export, for the arm named by `filter`.
CsvArrays(filter) ==
    [k \in 1..4 |-> [key |-> KindKeys[k], ext |-> filter \o "_" \o Kinds[k]]]

\* The body of a `with fits.open(...)` block: the reads in order, stopping at
\* the first one that raises; `data` is what has been assigned by then.
RECURSIVE ReadFrom(_, _, _, _, _)
ReadFrom(f, ispec, arrays, n, data) ==
    IF n > Len(arrays) THEN [err |-> NoError, data |-> data]
    ELSE LET a == ReadArray(f, arrays[n].ext, ispec)
         IN  IF Failed(a) THEN [err |-> a.err, data |-> data]
             ELSE ReadFrom(f, ispec, arrays, n + 1, data @@ (arrays[n].key :> a.val[1]))

ReadAll(f, ispec, arrays) == ReadFrom(f, ispec, arrays, 1, <<>>)

\* output = dict(zall_pix_info=info, scores=scores, data=data)
Output(info, scores, data) == [zall_pix_info |-> info, scores |-> scores, data |-> data]

\* wavelength.astype(float); Table([...], names=(...)); the '.1f' format of the
\* wavelength column; table.write(buffer, format='csv'); StreamingResponse.
AsFloat(array) == <<"float", array>>
CsvResponse(data) ==
    [media_type |-> "text/csv",
     names |-> KindKeys,
     wavelength |-> [format |-> ".1f", values |-> AsFloat(data["wavelength"])],
     flux |-> data["flux"], ivar |-> data["ivar"], mask |-> data["mask"]]

\* ------------------------------------------------- exceptions to responses
\* `except KeyError` catches KeyError only: IndexError is a LookupError and
\* FileNotFoundError an OSError, both go to `except Exception`.
IsKeyError(err) == err.type = "KeyError"

\* The handlers without their `except KeyError` clause.
StatusOf_NoKeyErrorClause(err) == HTTP_INTERNAL_ERROR

StatusOf(err) == IF IsKeyError(err) THEN HTTP_NOT_FOUND ELSE HTTP_INTERNAL_ERROR

DetailOf(endpoint, err) ==
    IF ~IsKeyError(err) THEN "Internal Server Error: " \o err.msg
    ELSE IF endpoint = "json"
    THEN "TARGETID not found in zall-pix-fuji table. " \o err.msg
    ELSE err.msg

\* ------------------------------------------------------------------ state
VARIABLES
    phase,      \* the lifespan: "created", "serving", "stopped" or "failed"
    zall_file,  \* /data/desi/zall-pix-fuji.fits: None, or Some(the table)
    fs,         \* the coadd files under /data/desi/healpix: path -> file
    payload,    \* the module-level dict: None, or Some(payload["zall"])
    builds,     \* how many times lifespan has assigned payload["zall"]
    handles,    \* the open file handles: who opened which file, in which call
    requests    \* one record per request slot: the locals of its handler

vars == <<phase, zall_file, fs, payload, builds, handles, requests>>

Slots == 1..MaxRequests

Idle ==
    [pc |-> "idle", endpoint |-> "", targetid |-> 0, filter |-> "",
     zall |-> None, r |-> None, file_coadd |-> None, ispec |-> None,
     info |-> None, scores |-> None,
     status |-> 0, error |-> NoError, detail |-> "", body |-> None]

InFlight(s) == requests[s].pc \notin {"idle", "done"}

\* ------------------------------------------------------------ file handles
Handle(s, path, call) == [owner |-> s, path |-> path, call |-> call]
Opened(hs, s, path, call) == hs \cup {Handle(s, path, call)}
Released(hs, s) == {h \in hs : h.owner # s}

\* fits.getdata closes the file it opened when it returns and when it raises.
AfterGetdata(hs, s, err) == Released(hs, s)

\* hdul = fits.open(...) ... hdul.close() in the place of the with block: an
\* exception between the two leaves the file open.
AfterWith_CloseAtEnd(hs, s, err) == IF err = NoError THEN Released(hs, s) ELSE hs

\* Leaving `with fits.open(...) as hdul`, normally or by an exception.
AfterWith(hs, s, err) == Released(hs, s)

\* ---------------------------------------------------------------- lifespan
\* Table.read(...); add_index; payload["zall"] = zall.  A missing or malformed
\* catalog file makes Table.read raise, and the application does not start.
Startup ==
    /\ phase = "created"
    /\ IF zall_file = None
       THEN /\ phase' = "failed"
            /\ UNCHANGED <<payload, builds>>
       ELSE /\ phase' = "serving"
            /\ payload' = Some(zall_file[1])
            /\ builds' = builds + 1
    /\ UNCHANGED <<zall_file, fs, handles, requests>>

\* payload.clear(), after the last request has been answered.
Shutdown ==
    /\ phase = "serving"
    /\ \A s \in Slots : ~InFlight(s)
    /\ phase' = "stopped"
    /\ payload' = None
    /\ UNCHANGED <<zall_file, fs, builds, handles, requests>>

\* An application that dispatches requests whatever the state of its lifespan.
CanServe_Always == TRUE

\* app = FastAPI(lifespan=lifespan): requests are dispatched to the handlers
\* between the end of startup and the beginning of shutdown only.
CanServe == phase = "serving"

\* --------------------------------------------------------------- handlers
\* raise HTTPException(...) from the two except clauses.
Fail(req, err) ==
    [req EXCEPT !.pc = "done", !.status = StatusOf(err), !.error = err,
                !.detail = DetailOf(req.endpoint, err)]

\* zall = payload["zall"] stands before the try: without the key the KeyError
\* leaves the handler and the framework answers 500.
Unhandled(req, err) ==
    [req EXCEPT !.pc = "done", !.status = HTTP_INTERNAL_ERROR, !.error = err,
                !.detail = "Internal Server Error"]

\* fits.getdata(file_coadd, ...) and fits.open(file_coadd) up to the open file.
Open(req, fsys, at) ==
    IF OpenError(fsys, req.file_coadd[1]) # NoError
    THEN Fail(req, OpenError(fsys, req.file_coadd[1]))
    ELSE [req EXCEPT !.pc = at]

\* From zall = payload["zall"] to the opening of the file by the first getdata.
Lookup(req, pl, fsys) ==
    IF pl = None THEN Unhandled(req, Error("KeyError", "'zall'"))
    ELSE LET found == Loc(pl[1], req.targetid)
             seen == [req EXCEPT !.zall = pl]
         IN  IF Failed(found) THEN Fail(seen, found.err)
             ELSE Open([seen EXCEPT !.r = found.val,
                                    !.file_coadd = Some(FileCoadd(found.val[1]))],
                       fsys, "fibermap_open")

\* The rest of getdata(file_coadd, 'FIBERMAP') and the argwhere line.
Locate(req, fsys) ==
    LET found == Ispec(fsys[req.file_coadd[1]], req.targetid)
    IN  IF Failed(found) THEN Fail(req, found.err)
        ELSE [req EXCEPT !.ispec = found.val]

\* info = row2dict(r), then the rest of getdata(file_coadd, 'SCORES') with rec2dict.
ReadScores(req, fsys) ==
    LET found == Scores(fsys[req.file_coadd[1]], req.ispec[1])
    IN  IF Failed(found) THEN Fail(req, found.err)
        ELSE [req EXCEPT !.scores = found.val]

\* A handler that skips an array it cannot read and returns what it has.
JsonDocument_SkipFailedRead(req, fsys) ==
    LET read == ReadAll(fsys[req.file_coadd[1]], req.ispec[1], JsonArrays)
    IN  [req EXCEPT !.pc = "done", !.status = HTTP_OK,
                    !.body = Some(Output(req.info[1], req.scores[1], read.data))]

\* The with block of get_coadd_spectrum_json and the return of the document.
JsonDocument(req, fsys) ==
    LET read == ReadAll(fsys[req.file_coadd[1]], req.ispec[1], JsonArrays)
    IN  IF read.err # NoError THEN Fail(req, read.err)
        ELSE [req EXCEPT !.pc = "done", !.status = HTTP_OK,
                         !.body = Some(Output(req.info[1], req.scores[1], read.data))]

\* The with block of get_coadd_spectrum_csv, the table and the response.
CsvTable(req, fsys) ==
    LET read == ReadAll(fsys[req.file_coadd[1]], req.ispec[1], CsvArrays(req.filter))
    IN  IF read.err # NoError THEN Fail(req, read.err)
        ELSE [req EXCEPT !.pc = "done", !.status = HTTP_OK,
                         !.body = Some(CsvResponse(read.data))]

\* The effect of one step of the handler of slot s: its locals become `after`
\* and `handles` gains the handle of the call the request now stands in, if it
\* stands in one.
Step(s, after, hs) ==
    \E next \in {after} :
        /\ requests' = [requests EXCEPT ![s] = next]
        /\ handles' = IF next.pc = "fibermap_open"
                          THEN Opened(hs, s, next.file_coadd[1], "FIBERMAP")
                      ELSE IF next.pc = "scores_open"
                          THEN Opened(hs, s, next.file_coadd[1], "SCORES")
                      ELSE IF next.pc = "spectra_open"
                          THEN Opened(hs, s, next.file_coadd[1], "open")
                      ELSE hs
        /\ UNCHANGED <<phase, zall_file, fs, payload, builds>>

\* Requests take the slots in the order in which they arrive.
Arrives(s) ==
    /\ requests[s].pc = "idle"
    /\ \A t \in Slots : t < s => requests[t].pc # "idle"

\* The handler of slot s reads through the file it opened itself: the local
\* hdulist of getdata, the local hdul of the with block.
Holds(s, call) == Handle(s, requests[s].file_coadd[1], call) \in handles

\* GET /coadd/{targetid}
JsonBegin(s, targetid) ==
    /\ CanServe
    /\ Arrives(s)
    /\ Step(s, Lookup([Idle EXCEPT !.endpoint = "json", !.targetid = targetid],
                      payload, fs), handles)

JsonLocate(s) ==
    /\ requests[s].endpoint = "json"
    /\ requests[s].pc = "fibermap_open"
    /\ Holds(s, "FIBERMAP")
    /\ \E located \in {Locate(requests[s], fs)} :
           Step(s, IF located.pc = "done" THEN located
                   ELSE Open([located EXCEPT !.info = Some(Row2Dict(located.r[1]))],
                             fs, "scores_open"),
                AfterGetdata(handles, s, located.error))

JsonScores(s) ==
    /\ requests[s].endpoint = "json"
    /\ requests[s].pc = "scores_open"
    /\ Holds(s, "SCORES")
    /\ \E scored \in {ReadScores(requests[s], fs)} :
           Step(s, IF scored.pc = "done" THEN scored ELSE Open(scored, fs, "spectra_open"),
                AfterGetdata(handles, s, scored.error))

JsonSpectra(s) ==
    /\ requests[s].endpoint = "json"
    /\ requests[s].pc = "spectra_open"
    /\ Holds(s, "open")
    /\ \E answered \in {JsonDocument(requests[s], fs)} :
           Step(s, answered, AfterWith(handles, s, answered.error))

\* filter: Union[str, None] = 'R': the parameter of a query that may omit it.
Queries == {None} \cup {Some(filter) : filter \in Filters}
FilterOf(query) == IF query = None THEN DefaultFilter ELSE query[1]

\* GET /coadd-csv/{targetid}?filter=...
CsvBegin(s, targetid, query) ==
    /\ CanServe
    /\ Arrives(s)
    /\ Step(s, Lookup([Idle EXCEPT !.endpoint = "csv", !.targetid = targetid,
                                   !.filter = FilterOf(query)], payload, fs), handles)

CsvLocate(s) ==
    /\ requests[s].endpoint = "csv"
    /\ requests[s].pc = "fibermap_open"
    /\ Holds(s, "FIBERMAP")
    /\ \E located \in {Locate(requests[s], fs)} :
           Step(s, IF located.pc = "done" THEN located ELSE Open(located, fs, "spectra_open"),
                AfterGetdata(handles, s, located.error))

CsvSpectra(s) ==
    /\ requests[s].endpoint = "csv"
    /\ requests[s].pc = "spectra_open"
    /\ Holds(s, "open")
    /\ \E answered \in {CsvTable(requests[s], fs)} :
           Step(s, answered, AfterWith(handles, s, answered.error))

\* ------------------------------------------------------------ specification
Init ==
    /\ phase = "created"
    /\ zall_file \in {None} \cup {Some(catalog) : catalog \in Catalogs}
    /\ fs \in IF zall_file = None THEN {<<>>} ELSE FileSystems(zall_file[1])
    /\ payload = None
    /\ builds = 0
    /\ handles = {}
    /\ requests = [s \in Slots |-> Idle]

Next ==
    \/ Startup
    \/ Shutdown
    \/ \E s \in Slots, targetid \in TargetIds : JsonBegin(s, targetid)
    \/ \E s \in Slots : JsonLocate(s)
    \/ \E s \in Slots : JsonScores(s)
    \/ \E s \in Slots : JsonSpectra(s)
    \/ \E s \in Slots, targetid \in TargetIds, query \in Queries : CsvBegin(s, targetid, query)
    \/ \E s \in Slots : CsvLocate(s)
    \/ \E s \in Slots : CsvSpectra(s)

Spec == Init /\ [][Next]_vars

\* ------------------------------------------------------------- properties
Done(s) == requests[s].pc = "done"
Json(s) == requests[s].endpoint = "json"
Csv(s) == requests[s].endpoint = "csv"

\* The facts of a request, read from the catalog file and the file tree.
InCatalog(s) == zall_file # None /\ requests[s].targetid \in DOMAIN zall_file[1]
CatalogRowOf(s) == zall_file[1][requests[s].targetid]
PathOf(s) == FileCoadd(CatalogRowOf(s))
FileOpens(s) == InCatalog(s) /\ PathOf(s) \in DOMAIN fs /\ fs[PathOf(s)].valid
FileOf(s) == fs[PathOf(s)]
HasColumn(s) == FileOpens(s) /\ "FIBERMAP" \in FileOf(s).exts /\ FileOf(s).has_targetid
RowsOf(s) == {i \in DOMAIN FileOf(s).targetid : FileOf(s).targetid[i] = requests[s].targetid}
InColumn(s) == HasColumn(s) /\ RowsOf(s) # {}
NoResponseBody(s) == requests[s].body = None

\* C1: a request for a TARGETID that the catalog does not hold ends with status
\* 404 and never with 500, at either endpoint, for any filter and any file tree.
C1_UnknownTargetIsNotFound ==
    \A s \in Slots :
        Done(s) /\ ~InCatalog(s) =>
            /\ requests[s].status = HTTP_NOT_FOUND
            /\ requests[s].status # HTTP_INTERNAL_ERROR
            /\ NoResponseBody(s)

\* Both endpoints have answered 404 for an unknown TARGETID while a coadd file
\* of the catalog is missing or damaged.
C1_Witness ==
    /\ \E s, t \in Slots :
          /\ Json(s) /\ Csv(t) /\ Done(s) /\ Done(t)
          /\ ~InCatalog(s) /\ ~InCatalog(t)
          /\ requests[s].status = HTTP_NOT_FOUND /\ requests[t].status = HTTP_NOT_FOUND
    /\ zall_file # None
    /\ \E path \in PathsOf(zall_file[1]) : path \notin DOMAIN fs \/ ~fs[path].valid

\* C2: a request ends with status 404 only if its TARGETID is absent from the
\* catalog; every other failure of the lookup chain ends with another status.
C2_NotFoundOnlyForUnknownTarget ==
    \A s \in Slots :
        Done(s) /\ requests[s].status = HTTP_NOT_FOUND => ~InCatalog(s)

\* C3: the tabular export for a TARGETID that is in the catalog and in its
\* file's TARGETID column, with a filter that names no arm of the file, ends
\* with an outcome that is neither 500 nor the 404 of an unknown TARGETID.
C3_InvalidArmIsItsOwnOutcome ==
    \A s \in Slots :
        ( /\ Done(s) /\ Csv(s) /\ InColumn(s)
          /\ \A k \in 1..4 : requests[s].filter \o "_" \o Kinds[k] \notin FileOf(s).exts )
        => /\ requests[s].status \notin {HTTP_OK, HTTP_NOT_FOUND, HTTP_INTERNAL_ERROR}
           /\ NoResponseBody(s)

\* C4: when the TARGETID is in the catalog and its file opens with a TARGETID
\* column that does not hold it, the request fails with an outcome other than
\* the 404 of an unknown TARGETID (the IndexError of the argwhere line, answered
\* with 500), with no row offset and no response body.
C4_RowNotFoundIsNotNotFound ==
    \A s \in Slots :
        Done(s) /\ HasColumn(s) /\ ~InColumn(s) =>
            /\ requests[s].error # NoError
            /\ requests[s].error.type = "IndexError"
            /\ requests[s].status \notin {HTTP_OK, HTTP_NOT_FOUND}
            /\ requests[s].ispec = None
            /\ NoResponseBody(s)

\* Both endpoints have failed for a catalogued TARGETID missing from the column.
C4_Witness ==
    \E s, t \in Slots :
        /\ Json(s) /\ Csv(t) /\ Done(s) /\ Done(t)
        /\ HasColumn(s) /\ ~InColumn(s) /\ HasColumn(t) /\ ~InColumn(t)
        /\ requests[s].status = HTTP_INTERNAL_ERROR
        /\ requests[t].status = HTTP_INTERNAL_ERROR

\* C5: when the TARGETID is in the catalog and in the column of its file but the
\* file has no SCORES extension, the full document request fails with an
\* outcome other than the 404 of an unknown TARGETID and returns no document.
C5_MissingScoresIsNotNotFound ==
    \A s \in Slots :
        Done(s) /\ Json(s) /\ InColumn(s) /\ "SCORES" \notin FileOf(s).exts =>
            /\ requests[s].error # NoError
            /\ requests[s].status \notin {HTTP_OK, HTTP_NOT_FOUND}
            /\ NoResponseBody(s)

\* The document of get_coadd_spectrum_json with all of its parts.
JsonKeys == {JsonArrays[n].key : n \in 1..12}
FullDocument(s, doc) ==
    /\ DOMAIN doc = {"zall_pix_info", "scores", "data"}
    /\ doc.zall_pix_info = CatalogRowOf(s)
    /\ DOMAIN doc.scores = {"TSNR2_B", "TSNR2_R"}
    /\ DOMAIN doc.data = JsonKeys
    /\ Cardinality(JsonKeys) = 12

\* C6: a finished full document request has either status 200 and the document
\* with the catalog row, the scores and all twelve arrays, or an error and no
\* document at all; an unfinished one has answered nothing.
C6_FullDocumentOrError ==
    \A s \in Slots :
        /\ Done(s) /\ Json(s) =>
              \/ /\ requests[s].status = HTTP_OK
                 /\ requests[s].error = NoError
                 /\ requests[s].body # None
                 /\ FullDocument(s, requests[s].body[1])
              \/ /\ requests[s].status \in {HTTP_NOT_FOUND, HTTP_INTERNAL_ERROR}
                 /\ requests[s].error # NoError
                 /\ NoResponseBody(s)
        /\ ~Done(s) => NoResponseBody(s) /\ requests[s].status = 0

\* One full document has been returned, and another request has failed inside
\* the with block after its first arrays had been read.
C6_Witness ==
    \E s, t \in Slots :
        /\ Json(s) /\ Done(s) /\ requests[s].status = HTTP_OK
        /\ Json(t) /\ Done(t) /\ requests[t].scores # None
        /\ requests[t].error.type = "KeyError"

\* C7: the catalog is installed in payload once, before any request is
\* handled; while the application serves, payload holds the table that startup
\* read, and every request that has been handled read exactly that table.
C7_CatalogBuiltOnceAndReadOnly ==
    /\ builds <= 1
    /\ phase = "serving" => builds = 1 /\ payload = zall_file /\ zall_file # None
    /\ phase \in {"created", "failed"} => \A s \in Slots : requests[s].pc = "idle"
    /\ \A s \in Slots :
          requests[s].pc # "idle" =>
              /\ builds = 1
              /\ requests[s].zall = zall_file
              /\ requests[s].zall # None
              /\ requests[s].r = IF InCatalog(s) THEN Some(CatalogRowOf(s)) ELSE None

\* After shutdown has cleared payload: two requests were answered, a known and
\* an unknown TARGETID, both from the table that startup installed.
C7_Witness ==
    /\ phase = "stopped" /\ payload = None /\ builds = 1
    /\ \E s, t \in Slots :
          /\ Done(s) /\ Done(t) /\ InCatalog(s) /\ ~InCatalog(t)
          /\ requests[s].zall = zall_file /\ requests[t].zall = zall_file

\* The handles a request may hold at each point of its handler.
HandlesOf(s) == {h \in handles : h.owner = s}
OwnHandle(s, call) == {Handle(s, PathOf(s), call)}

\* C8: a request that has finished, with any outcome, holds no open file; a
\* request in flight holds exactly the one file it opened itself, its own coadd
\* file; and every open file belongs to a request in flight.
C8_HandlesAreReleased ==
    /\ \A s \in Slots :
          /\ requests[s].pc \in {"idle", "done"} => HandlesOf(s) = {}
          /\ requests[s].pc = "fibermap_open" => HandlesOf(s) = OwnHandle(s, "FIBERMAP")
          /\ requests[s].pc = "scores_open" => HandlesOf(s) = OwnHandle(s, "SCORES")
          /\ requests[s].pc = "spectra_open" => HandlesOf(s) = OwnHandle(s, "open")
    /\ \A h \in handles : h.owner \in Slots /\ InFlight(h.owner)
    /\ Cardinality(handles) = Cardinality({s \in Slots : InFlight(s)})
    /\ phase = "stopped" => handles = {}

\* One request has failed inside its with block and another has returned its
\* table, both without a handle, after each had opened its coadd file.
C8_Witness ==
    /\ handles = {}
    /\ \E s, t \in Slots :
          /\ Done(s) /\ Csv(s) /\ requests[s].ispec # None
          /\ requests[s].status = HTTP_NOT_FOUND
          /\ Done(t) /\ requests[t].status = HTTP_OK

\* C9: for a catalog row with a non-negative HEALPIX both handlers use the path
\* root/survey/program/bucket/healpix/coadd-survey-program-healpix.fits with
\* bucket = floor(healpix / 100): 12345 gives 123 and 9103 gives 91; the path
\* depends on SURVEY, PROGRAM and HEALPIX only.
C9_PathFromBucket ==
    \A s \in Slots :
        requests[s].r # None /\ requests[s].r[1].HEALPIX >= 0 =>
            LET row == requests[s].r[1]
                path == requests[s].file_coadd[1]
            IN  /\ path = << "/data/desi/healpix", row.SURVEY, row.PROGRAM,
                             row.HEALPIX \div 100, row.HEALPIX,
                             <<"coadd", row.SURVEY, row.PROGRAM, row.HEALPIX, "fits">> >>
                /\ row.HEALPIX = 12345 => path[4] = 123
                /\ row.HEALPIX = 9103 => path[4] = 91
                /\ \A t \in Slots :
                      /\ requests[t].r # None
                      /\ requests[t].r[1].SURVEY = row.SURVEY
                      /\ requests[t].r[1].PROGRAM = row.PROGRAM
                      /\ requests[t].r[1].HEALPIX = row.HEALPIX
                      => requests[t].file_coadd = requests[s].file_coadd

\* The two handlers have resolved the paths of the two targets of the catalog,
\* neither HEALPIX a multiple of 100.
C9_Witness ==
    \E s, t \in Slots :
        /\ Json(s) /\ Csv(t)
        /\ requests[s].file_coadd # None /\ requests[t].file_coadd # None
        /\ requests[s].r[1].HEALPIX = 12345 /\ requests[t].r[1].HEALPIX = 9103
        /\ requests[s].file_coadd[1][4] = 123 /\ requests[t].file_coadd[1][4] = 91

\* The per-row values of a response, as the file holds them at row offset i.
JsonRowsAt(s, i, doc) ==
    /\ doc.scores = ScoresData(FileOf(s))[i + 1]
    /\ \A a \in 1..3 :
          /\ doc.data[ArmKeys[a] \o "_wavelength"] = GridData(ExtName(Arms[a], "WAVELENGTH"))
          /\ \A k \in 2..4 :
                doc.data[ArmKeys[a] \o "_" \o KindKeys[k]]
                    = ImageData(FileOf(s), ExtName(Arms[a], Kinds[k]))[i + 1]
CsvRowsAt(s, i, table) ==
    /\ table.wavelength.values = AsFloat(GridData(requests[s].filter \o "_WAVELENGTH"))
    /\ table.flux = ImageData(FileOf(s), requests[s].filter \o "_FLUX")[i + 1]
    /\ table.ivar = ImageData(FileOf(s), requests[s].filter \o "_IVAR")[i + 1]
    /\ table.mask = ImageData(FileOf(s), requests[s].filter \o "_MASK")[i + 1]

\* C10: the row offset of a request is the smallest index at which the TARGETID
\* column of its file holds the TARGETID, and the scores and the flux, ivar and
\* mask of every arm of the response are the rows at that offset; the wavelength
\* grids are the whole arrays, whatever the offset.
C10_FirstRowEverywhere ==
    \A s \in Slots :
        requests[s].ispec # None =>
            LET i == requests[s].ispec[1]
            IN  /\ InColumn(s)
                /\ i + 1 \in RowsOf(s)
                /\ \A j \in RowsOf(s) : i + 1 <= j
                /\ requests[s].scores # None =>
                      requests[s].scores[1] = ScoresData(FileOf(s))[i + 1]
                /\ Done(s) /\ requests[s].status = HTTP_OK /\ Json(s) =>
                      JsonRowsAt(s, i, requests[s].body[1])
                /\ Done(s) /\ requests[s].status = HTTP_OK /\ Csv(s) =>
                      CsvRowsAt(s, i, requests[s].body[1])

\* A document and a table have been returned for targets whose rows are not
\* the last of their TARGETID, one of which stands twice in its column.
C10_Witness ==
    \E s, t \in Slots :
        /\ Json(s) /\ Done(s) /\ requests[s].status = HTTP_OK
        /\ Csv(t) /\ Done(t) /\ requests[t].status = HTTP_OK
        /\ Cardinality(RowsOf(s)) >= 2 \/ Cardinality(RowsOf(t)) >= 2
        /\ requests[s].ispec[1] + 1 < MaxRows \/ requests[t].ispec[1] + 1 < MaxRows

====
